---- MODULE Spec2Model ----
(***************************************************************************)
(* Model of Helpers.py: the Pascal VOC indexer and annotation parser, the  *)
(* box converter and the image geometry helpers (boundaries, padding,      *)
(* resizing, batch maxima).                                                *)
(*                                                                         *)
(* Text is a sequence of one-character strings, so that strip, split and   *)
(* int are computed and not assumed.  A call that raises is recorded as    *)
(* [status |-> <exception name>]; a call that returns as                   *)
(* [status |-> "ok", value |-> ...].                                       *)
(***************************************************************************)
EXTENDS Integers, Sequences, FiniteSets, TLC

VARIABLES op, args, result, fs, img_boundaries, applied

vars == <<op, args, result, fs, img_boundaries, applied>>

(***************************************************************************)
(* Bounds of the model.                                                    *)
(***************************************************************************)
MaxLines == 2
MaxLinesOther == 1
MaxClasses == 2
MaxObjects == 2
MaxSide == 2
MaxCanvas == 3
MaxBatch == 3
MaxBatchSide == 3
MaxImageSide == 6
MaxAllowed == 5
MaxBoxes == 2
MaxBoxSide == 3
MaxPad == 1
MaxCalls == 2
MaxBoundarySide == 2

Range(s) == {s[i] : i \in 1..Len(s)}

Ok(v) == [status |-> "ok", value |-> v]
Raise(e) == [status |-> e]
NoFs == <<>>
NoBoundaries == [top |-> 0, left |-> 0, right |-> 0, bottom |-> 0]

(***************************************************************************)
(* Text primitives of the Python runtime: str.strip, str.split(" "), int.  *)
(***************************************************************************)
Whitespace == {" ", "\n"}

RECURSIVE lstrip(_)
lstrip(s) ==
    IF s # <<>> /\ s[1] \in Whitespace THEN lstrip(Tail(s)) ELSE s

RECURSIVE rstrip(_)
rstrip(s) ==
    IF s # <<>> /\ s[Len(s)] \in Whitespace
    THEN rstrip(SubSeq(s, 1, Len(s) - 1))
    ELSE s

strip(s) == rstrip(lstrip(s))

\* s.split(sep): the fields between the separators, empty fields kept.
RECURSIVE split(_, _)
split(s, sep) ==
    IF \E i \in 1..Len(s) : s[i] = sep
    THEN LET i == CHOOSE k \in 1..Len(s) :
                      s[k] = sep /\ \A j \in 1..(k - 1) : s[j] # sep
         IN <<SubSeq(s, 1, i - 1)>> \o split(SubSeq(s, i + 1, Len(s)), sep)
    ELSE <<s>>

DigitVal ==
    ("0" :> 0) @@ ("1" :> 1) @@ ("2" :> 2) @@ ("3" :> 3) @@ ("4" :> 4) @@
    ("5" :> 5) @@ ("6" :> 6) @@ ("7" :> 7) @@ ("8" :> 8) @@ ("9" :> 9)

RECURSIVE nat(_)
nat(s) ==
    IF Len(s) = 1 THEN DigitVal[s[1]]
    ELSE nat(SubSeq(s, 1, Len(s) - 1)) * 10 + DigitVal[s[Len(s)]]

int(s) == IF s[1] = "-" THEN 0 - nat(Tail(s)) ELSE nat(s)

(***************************************************************************)
(* The VOC dictionary.                                                     *)
(***************************************************************************)
VOC_datatypes == <<"train", "val", "trainval", "test">>

VOC_unsorted ==
    <<"person">>
    \o <<"bird", "cat", "cow", "dog", "horse", "sheep">>
    \o <<"aeroplane", "bicycle", "boat", "bus", "car", "motorbike", "train">>
    \o <<"bottle", "chair", "diningtable", "pottedplant", "sofa", "tvmonitor">>

\* sorted(person + animals + vehicles + indoors)
VOC_classes ==
    <<"aeroplane", "bicycle", "bird", "boat", "bottle", "bus", "car", "cat",
      "chair", "cow", "diningtable", "dog", "horse", "motorbike", "person",
      "pottedplant", "sheep", "sofa", "train", "tvmonitor">>

\* list.index(x): the zero-based position of the first occurrence.
list_index(list, x) ==
    (CHOOSE i \in 1..Len(list) :
        list[i] = x /\ \A j \in 1..(i - 1) : list[j] # x) - 1


(***************************************************************************)
(* Paths.  os.path.join appends a component to a path; a file name built   *)
(* by string concatenation is the tuple of its pieces (list files) or the  *)
(* concatenated text (annotation and image files).                         *)
(***************************************************************************)
join(path, name) == Append(path, name)

main_path == <<"data", "VOCdevkit", "VOC2007">>
images_path == join(main_path, "JPEGImages")
annotations_path == join(main_path, "Annotations")
classes_path == join(join(main_path, "ImageSets"), "Main")

\* open(path) / ET.parse(path) on the file system: a missing file raises.
exists(files, path) == path \in DOMAIN files

(***************************************************************************)
(* handle_pascal_VOC_annotation, on the parsed tree of the file.           *)
(***************************************************************************)
\* The box record with its id taken from the vocabulary before sorting.
gt_box_unsorted(obj, vocabulary) ==
    [id |-> list_index(VOC_unsorted, obj.name),
     name |-> obj.name,
     bbox |-> <<int(obj.bndbox.xmin), int(obj.bndbox.ymin),
                int(obj.bndbox.xmax), int(obj.bndbox.ymax)>>]

gt_box(obj, vocabulary) ==
    [id |-> list_index(vocabulary, obj.name),
     name |-> obj.name,
     bbox |-> <<int(obj.bndbox.xmin), int(obj.bndbox.ymin),
                int(obj.bndbox.xmax), int(obj.bndbox.ymax)>>]

RECURSIVE gt_boxes_of(_, _)
gt_boxes_of(objects, classes) ==
    IF objects = <<>> THEN <<>>
    ELSE IF Head(objects).name \notin Range(classes)
         THEN gt_boxes_of(Tail(objects), classes)
         ELSE <<gt_box(Head(objects), VOC_classes)>>
              \o gt_boxes_of(Tail(objects), classes)

handle_pascal_VOC_annotation(root, classes) ==
    [filename |-> root.filename,
     width |-> int(root.size.width),
     height |-> int(root.size.height),
     depth |-> int(root.size.depth),
     gt_boxes |-> gt_boxes_of(root.objects, classes)]

(***************************************************************************)
(* get_pascal_VOC_data.                                                    *)
(***************************************************************************)
\* The test of line 36 without its membership test.
keeps_without_dedup(holder, filenames) ==
    int(holder[Len(holder)]) > -1

\* The test of line 36 on one split line.
keeps(holder, filenames) ==
    int(holder[Len(holder)]) > -1 /\ holder[1] \notin Range(filenames)

\* The loop over the lines of one list file (lines 34-37).
RECURSIVE read_lines(_, _)
read_lines(file, filenames) ==
    IF file = <<>> THEN filenames
    ELSE LET holder == split(strip(Head(file)), " ")
         IN read_lines(Tail(file),
                       IF keeps(holder, filenames)
                       THEN Append(filenames, holder[1])
                       ELSE filenames)

\* The assertion of line 31, left out.
valid_class_unchecked(classname) == TRUE

\* The assertion of line 31.
valid_class(classname) == classname \in Range(VOC_classes)

list_path(classname, datatype) ==
    join(classes_path, <<classname, "_", datatype, ".txt">>)

\* The loop over the requested classes (lines 30-40): the list of filenames,
\* or the exception that ends the loop.
RECURSIVE read_classes(_, _, _, _)
read_classes(files, datatype, classes, filenames) ==
    IF classes = <<>> THEN Ok(filenames)
    ELSE IF ~valid_class(Head(classes)) THEN Raise("AssertionError")
    ELSE LET path == list_path(Head(classes), datatype)
         IN IF ~exists(files.lists, path) THEN Raise("FileNotFoundError")
            ELSE read_classes(files, datatype, Tail(classes),
                              read_lines(files.lists[path], filenames))

annotation_record(files, filename, classes) ==
    LET annotation_path == join(annotations_path, filename \o <<".", "x", "m", "l">>)
        annotation_data ==
            handle_pascal_VOC_annotation(files.annotations[annotation_path], classes)
    IN [filename |-> annotation_data.filename,
        width |-> annotation_data.width,
        height |-> annotation_data.height,
        depth |-> annotation_data.depth,
        gt_boxes |-> annotation_data.gt_boxes,
        image_path |-> join(images_path, annotation_data.filename)]

get_pascal_VOC_data(files, datatype, classes) ==
    IF datatype \notin Range(VOC_datatypes) THEN Raise("AssertionError")
    ELSE LET read == read_classes(files, datatype, classes, <<>>)
         IN IF read.status # "ok" THEN read
            ELSE Ok([i \in 1..Len(read.value) |->
                        annotation_record(files, read.value[i], classes)])


(***************************************************************************)
(* Inputs of the indexer: the list files on disk, the split and the        *)
(* requested classes.                                                      *)
(***************************************************************************)
Filenames == {<<"0", "5">>, <<"0", "7">>}
Flags == {-1, 0, 1}
FlagText == (-1 :> <<"-", "1">>) @@ (0 :> <<" ", "0">>) @@ (1 :> <<" ", "1">>)

\* One line of a list file, "<filename> <flag>" with the flag right-aligned.
Line(f, flag) == f \o <<" ">> \o FlagText[flag] \o <<"\n">>
Lines == {Line(f, flag) : f \in Filenames, flag \in Flags}

SeqsUpTo(S, n) == UNION {[1..k -> S] : k \in 0..n}

\* The list files that may be on disk: those of two classes for one split.
FsClasses == {"cat", "dog"}
FsListPaths == {list_path(c, "train") : c \in FsClasses}
ListFiles(path) ==
    IF path = list_path("cat", "train") THEN SeqsUpTo(Lines, MaxLines)
    ELSE SeqsUpTo(Lines, MaxLinesOther)
ListDirs ==
    UNION {{l \in [P -> SeqsUpTo(Lines, MaxLines) \cup SeqsUpTo(Lines, MaxLinesOther)] :
                \A p \in P : l[p] \in ListFiles(p)} : P \in SUBSET FsListPaths}

NumberText ==
    (1 :> <<"1">>) @@ (3 :> <<"3">>) @@ (8 :> <<"8">>) @@ (12 :> <<"1", "2">>)
    @@ (48 :> <<"4", "8">>) @@ (195 :> <<"1", "9", "5">>)
    @@ (240 :> <<"2", "4", "0">>) @@ (352 :> <<"3", "5", "2">>)
    @@ (353 :> <<"3", "5", "3">>) @@ (371 :> <<"3", "7", "1">>)
    @@ (375 :> <<"3", "7", "5">>) @@ (498 :> <<"4", "9", "8">>)
    @@ (500 :> <<"5", "0", "0">>)

Tree(filename, width, height, depth, objects) ==
    [filename |-> filename,
     size |-> [width |-> NumberText[width], height |-> NumberText[height],
               depth |-> NumberText[depth]],
     objects |-> objects]

Object(name, box) ==
    [name |-> name,
     bndbox |-> [xmin |-> NumberText[box[1]], ymin |-> NumberText[box[2]],
                 xmax |-> NumberText[box[3]], ymax |-> NumberText[box[4]]]]

jpg(f) == f \o <<".", "j", "p", "g">>

\* The annotation file of each image of the fixture.
FixtureAnnotations ==
    [p \in {join(annotations_path, f \o <<".", "x", "m", "l">>) : f \in Filenames} |->
        LET f == SubSeq(p[Len(p)], 1, Len(p[Len(p)]) - 4)
        IN Tree(jpg(f), 500, 375, 3,
                <<Object("cat", <<48, 240, 195, 371>>),
                  Object("person", <<8, 12, 352, 498>>)>>)]

FileSystems ==
    {[lists |-> l, annotations |-> FixtureAnnotations] :
        l \in ListDirs}

DatatypeInputs == {"train", "training"}
ClassInputs == {"cat", "dog", "kitten"}
ClassLists == SeqsUpTo(ClassInputs, MaxClasses)

InitVOC ==
    /\ op = "idle"
    /\ args \in [datatype : DatatypeInputs, classes : ClassLists]
    /\ result = <<>>
    /\ fs \in FileSystems
    /\ img_boundaries = NoBoundaries
    /\ applied = <<>>

GetPascalVOCData ==
    /\ op = "idle"
    /\ op' = "get_pascal_VOC_data"
    /\ result' = get_pascal_VOC_data(fs, args.datatype, args.classes)
    /\ UNCHANGED <<args, fs, img_boundaries, applied>>

NextVOC == GetPascalVOCData

SpecVOC == InitVOC /\ [][NextVOC]_vars


(***************************************************************************)
(* Claims about get_pascal_VOC_data.                                       *)
(***************************************************************************)
ValidSplit == args.datatype \in {"train", "val", "trainval", "test"}
ValidClasses == \A i \in 1..Len(args.classes) : args.classes[i] \in Range(VOC_classes)
ListPresent(c) == list_path(c, args.datatype) \in DOMAIN fs.lists

\* f is listed with a non-negative flag in the list file of requested class c.
ListedIn(f, c) ==
    /\ ListPresent(c)
    /\ \E i \in 1..Len(fs.lists[list_path(c, args.datatype)]) :
          \E flag \in {0, 1} :
              fs.lists[list_path(c, args.datatype)][i] = Line(f, flag)

MentionedIn(f, c) ==
    /\ ListPresent(c)
    /\ \E i \in 1..Len(fs.lists[list_path(c, args.datatype)]) :
          \E flag \in Flags :
              fs.lists[list_path(c, args.datatype)][i] = Line(f, flag)

Expected == {f \in Filenames : \E c \in Range(args.classes) : ListedIn(f, c)}

Returned == op = "get_pascal_VOC_data" /\ result.status = "ok"

\* C1: with a valid split, valid classes and every requested list file on
\* disk the indexer returns, and what it returns is exactly one record per
\* filename listed with a flag > -1 in some requested list file: none
\* missing, none extra, none twice.
C1_OneRecordPerListedFilename ==
    op = "get_pascal_VOC_data" =>
        /\ (ValidSplit /\ ValidClasses /\ \A c \in Range(args.classes) : ListPresent(c))
              => result.status = "ok"
        /\ result.status = "ok" =>
              /\ Len(result.value) = Cardinality(Expected)
              /\ {result.value[i].filename : i \in 1..Len(result.value)}
                    = {jpg(f) : f \in Expected}
              /\ \A i \in 1..Len(result.value) :
                    result.value[i].image_path
                        = join(images_path, result.value[i].filename)

\* A filename listed with a non-negative flag in both requested list files,
\* next to a filename whose flag is negative where it is listed.
C1_Witness ==
    /\ Returned
    /\ args.classes = <<"cat", "dog">>
    /\ \E f \in Filenames, g \in Filenames :
          /\ f # g
          /\ fs.lists[list_path("cat", "train")] = <<Line(f, 1), Line(g, -1)>>
          /\ fs.lists[list_path("dog", "train")] = <<Line(f, 0)>>
          /\ result.value[1].filename = jpg(f)
    /\ Len(result.value) = 1

Invalid == ~ValidSplit \/ ~ValidClasses

\* C7 as stated: an invalid split or class name always ends in an assertion
\* failure, whatever list files are present or absent.
C7_AlwaysAssertionFailure ==
    (op = "get_pascal_VOC_data" /\ Invalid) => result.status = "AssertionError"

\* The first invalid class name is reached: every class requested before it
\* has its list file on disk.
ReachesInvalidClass ==
    \E i \in 1..Len(args.classes) :
        /\ args.classes[i] \notin Range(VOC_classes)
        /\ \A j \in 1..(i - 1) :
              args.classes[j] \in Range(VOC_classes) /\ ListPresent(args.classes[j])

\* C7, amended: an invalid split or class name never returns a dataset; the
\* call ends in an assertion failure when the split is invalid or the first
\* invalid class name is reached, and in the file-not-found error of a
\* missing list file of an earlier class otherwise.
C7_NeverReturnsDataset ==
    (op = "get_pascal_VOC_data" /\ Invalid) =>
        /\ result.status \in {"AssertionError", "FileNotFoundError"}
        /\ result.status = "AssertionError" <=> (~ValidSplit \/ ReachesInvalidClass)

\* An invalid class name in second position, behind a class whose list file
\* is on disk.
C7_Witness ==
    /\ op = "get_pascal_VOC_data"
    /\ ValidSplit
    /\ Len(args.classes) = 2
    /\ args.classes[1] \in Range(VOC_classes) /\ ListPresent(args.classes[1])
    /\ args.classes[2] \notin Range(VOC_classes)
    /\ result.status = "AssertionError"

(***************************************************************************)
(* handle_pascal_VOC_annotation on annotations drawn from a bounded set.   *)
(***************************************************************************)
Widths == {353, 500}
Heights == {375, 500}
Depths == {1, 3}
ObjectNames == {"cat", "dog", "person"}
Boxes == {<<48, 240, 195, 371>>, <<8, 12, 352, 498>>}
Objects == {Object(n, b) : n \in ObjectNames, b \in Boxes}
Trees ==
    {Tree(jpg(<<"0", "5">>), w, h, d, objs) :
        w \in Widths, h \in Heights, d \in Depths,
        objs \in SeqsUpTo(Objects, MaxObjects)}
RequestedLists == SeqsUpTo({"cat", "person", "kitten"}, MaxClasses)

InitAnn ==
    /\ op = "idle"
    /\ args \in [root : Trees, classes : RequestedLists]
    /\ result = <<>>
    /\ fs = NoFs
    /\ img_boundaries = NoBoundaries
    /\ applied = <<>>

HandlePascalVOCAnnotation ==
    /\ op = "idle"
    /\ op' = "handle_pascal_VOC_annotation"
    /\ result' = Ok(handle_pascal_VOC_annotation(args.root, args.classes))
    /\ UNCHANGED <<args, fs, img_boundaries, applied>>

NextAnn == HandlePascalVOCAnnotation

SpecAnn == InitAnn /\ [][NextAnn]_vars

\* The positions of the objects whose name is requested.
KeptAt == {k \in 1..Len(args.root.objects) :
              args.root.objects[k].name \in Range(args.classes)}
\* The position in the document of the j-th kept object.
NthKept(j) == CHOOSE k \in KeptAt : Cardinality({m \in KeptAt : m <= k}) = j

\* C2: the parsed record has the annotation's width, height and depth, and
\* gt_boxes is the requested objects in document order, each with its own
\* corners and the index of its name in the sorted vocabulary.
C2_ExactFilteredBoxes ==
    op = "handle_pascal_VOC_annotation" =>
        LET r == result.value
            objs == args.root.objects
        IN /\ NumberText[r.width] = args.root.size.width
           /\ NumberText[r.height] = args.root.size.height
           /\ NumberText[r.depth] = args.root.size.depth
           /\ Len(r.gt_boxes) = Cardinality(KeptAt)
           /\ \A j \in 1..Len(r.gt_boxes) :
                 LET o == objs[NthKept(j)]
                     g == r.gt_boxes[j]
                 IN /\ g.name = o.name
                    /\ Object(g.name, g.bbox) = o
                    /\ g.id \in 0..19
                    /\ VOC_classes[g.id + 1] = g.name
                    /\ \A a, b \in 1..20 :
                          (a < b /\ VOC_classes[b] = g.name) =>
                              VOC_classes[a] # g.name

\* Two objects of which the first is excluded and the second kept.
C2_Witness ==
    /\ op = "handle_pascal_VOC_annotation"
    /\ Len(args.root.objects) = 2
    /\ args.root.objects[1].name = "dog"
    /\ args.root.objects[2].name = "person"
    /\ args.classes = <<"person", "kitten">>
    /\ Len(result.value.gt_boxes) = 1
    /\ result.value.gt_boxes[1].id = 14
    /\ result.value.gt_boxes[1].bbox = <<8, 12, 352, 498>>


(***************************************************************************)
(* Image arrays.  An array has a shape (height, width, depth) and a pixel  *)
(* at every (row, column); rows and columns count from 1 in the model.     *)
(***************************************************************************)
PixelValues == {0, 9}
Depth == 3

Array(h, w, px) == [shape |-> <<h, w, Depth>>, px |-> px]

ImagesOfShape(h, w) ==
    {Array(h, w, px) : px \in [(1..h) \X (1..w) -> PixelValues]}

BlankImage(h, w) == Array(h, w, [rc \in (1..h) \X (1..w) |-> 0])

\* np.pad(img, ((top, bottom), (left, right), (0, 0)), mode='constant')
np_pad(img, top, bottom, left, right) ==
    LET h == img.shape[1]
        w == img.shape[2]
    IN Array(h + top + bottom, w + left + right,
             [rc \in (1..(h + top + bottom)) \X (1..(w + left + right)) |->
                 IF /\ rc[1] > top /\ rc[1] <= top + h
                    /\ rc[2] > left /\ rc[2] <= left + w
                 THEN img.px[<<rc[1] - top, rc[2] - left>>]
                 ELSE 0])

\* get_padded_img with the top and bottom counts passed to the pad in the
\* wrong order.
get_padded_img_swapped(img, max_height, max_width) ==
    LET height == img.shape[1]
        width == img.shape[2]
        padding_height == max_height - height
        padding_width == max_width - width
        top == padding_height \div 2
        bottom == padding_height - top
        left == padding_width \div 2
        right == padding_width - left
    IN IF height > max_height \/ width > max_width THEN Raise("AssertionError")
       ELSE Ok([img |-> np_pad(img, bottom, top, right, left),
                padding |-> [top |-> top, bottom |-> bottom,
                             left |-> left, right |-> right]])

\* get_padded_img with both counts of an axis taken as the floored half.
get_padded_img_halved(img, max_height, max_width) ==
    LET height == img.shape[1]
        width == img.shape[2]
        padding_height == max_height - height
        padding_width == max_width - width
        top == padding_height \div 2
        bottom == padding_height \div 2
        left == padding_width \div 2
        right == padding_width \div 2
    IN IF height > max_height \/ width > max_width THEN Raise("AssertionError")
       ELSE Ok([img |-> np_pad(img, top, bottom, left, right),
                padding |-> [top |-> top, bottom |-> bottom,
                             left |-> left, right |-> right]])

get_padded_img(img, max_height, max_width) ==
    LET height == img.shape[1]
        width == img.shape[2]
        padding_height == max_height - height
        padding_width == max_width - width
        top == padding_height \div 2
        bottom == padding_height - top
        left == padding_width \div 2
        right == padding_width - left
    IN IF height > max_height \/ width > max_width THEN Raise("AssertionError")
       ELSE Ok([img |-> np_pad(img, top, bottom, left, right),
                padding |-> [top |-> top, bottom |-> bottom,
                             left |-> left, right |-> right]])

\* ndarray.argmax over one column: the first position of the largest value.
argmax(column) ==
    CHOOSE i \in 1..Len(column) :
        /\ \A j \in 1..Len(column) : column[j] <= column[i]
        /\ \A j \in 1..(i - 1) : column[j] < column[i]

\* calculate_max_height_width reading both values at the row of the tallest.
calculate_max_height_width_one_row(imgs) ==
    LET h_w_map == [index \in 1..Len(imgs) |->
                        <<imgs[index].shape[1], imgs[index].shape[2]>>]
        max_val == <<argmax([i \in 1..Len(imgs) |-> h_w_map[i][1]]),
                     argmax([i \in 1..Len(imgs) |-> h_w_map[i][2]])>>
    IN <<h_w_map[max_val[1]][1], h_w_map[max_val[1]][2]>>

calculate_max_height_width(imgs) ==
    LET h_w_map == [index \in 1..Len(imgs) |->
                        <<imgs[index].shape[1], imgs[index].shape[2]>>]
        max_val == <<argmax([i \in 1..Len(imgs) |-> h_w_map[i][1]]),
                     argmax([i \in 1..Len(imgs) |-> h_w_map[i][2]])>>
    IN <<h_w_map[max_val[1]][1], h_w_map[max_val[2]][2]>>

(***************************************************************************)
(* Padding one image to a canvas, and padding a batch to its own maxima.   *)
(***************************************************************************)
Images == UNION {ImagesOfShape(h, w) : h \in 1..MaxSide, w \in 1..MaxSide}
BatchImages == {BlankImage(h, w) : h \in 1..MaxBatchSide, w \in 1..MaxBatchSide}
Batches == UNION {[1..k -> BatchImages] : k \in 1..MaxBatch}

PadInputs == [img : Images, max_height : 1..MaxCanvas, max_width : 1..MaxCanvas]
BatchInputs == [imgs : Batches]

InitPad ==
    /\ op = "idle"
    /\ \/ args \in PadInputs
       \/ args \in BatchInputs
    /\ result = <<>>
    /\ fs = NoFs
    /\ img_boundaries = NoBoundaries
    /\ applied = <<>>

GetPaddedImg ==
    /\ op = "idle"
    /\ "img" \in DOMAIN args
    /\ op' = "get_padded_img"
    /\ result' = get_padded_img(args.img, args.max_height, args.max_width)
    /\ UNCHANGED <<args, fs, img_boundaries, applied>>

CalculateMaxHeightWidth ==
    /\ op = "idle"
    /\ "imgs" \in DOMAIN args
    /\ op' = "calculate_max_height_width"
    /\ result' = calculate_max_height_width(args.imgs)
    /\ UNCHANGED <<args, fs, img_boundaries, applied>>

\* Every image of the batch padded to the maxima just computed.
PadBatch ==
    /\ op = "calculate_max_height_width"
    /\ op' = "pad_batch"
    /\ args' = [imgs |-> args.imgs, max_height |-> result[1], max_width |-> result[2]]
    /\ result' = [i \in 1..Len(args.imgs) |->
                     get_padded_img(args.imgs[i], result[1], result[2])]
    /\ UNCHANGED <<fs, img_boundaries, applied>>

NextPad == GetPaddedImg \/ CalculateMaxHeightWidth \/ PadBatch

SpecPad == InitPad /\ [][NextPad]_vars


\* The slice array[top : top + h, left : left + w].
Crop(array, top, left, h, w) ==
    Array(h, w, [rc \in (1..h) \X (1..w) |-> array.px[<<rc[1] + top, rc[2] + left>>]])

\* C3: when the canvas is at least as large as the image, the padded array
\* holds the original pixels at the offset (top, left) of the padding
\* record, zero everywhere else, and cropping it at that offset gives the
\* original image back.
C3_PaddingRoundTrip ==
    (/\ op = "get_padded_img"
     /\ args.img.shape[1] <= args.max_height
     /\ args.img.shape[2] <= args.max_width) =>
        /\ result.status = "ok"
        /\ LET h == args.img.shape[1]
               w == args.img.shape[2]
               out == result.value.img
               top == result.value.padding.top
               left == result.value.padding.left
           IN /\ DOMAIN out.px = (1..out.shape[1]) \X (1..out.shape[2])
              /\ top + h <= out.shape[1] /\ left + w <= out.shape[2]
              /\ \A r \in 1..out.shape[1], c \in 1..out.shape[2] :
                    IF r - top \in 1..h /\ c - left \in 1..w
                    THEN out.px[<<r, c>>] = args.img.px[<<r - top, c - left>>]
                    ELSE out.px[<<r, c>>] = 0
              /\ Crop(out, top, left, h, w) = args.img

\* An image without a zero pixel, padded by an odd amount on both axes.
C3_Witness ==
    /\ op = "get_padded_img"
    /\ result.status = "ok"
    /\ args.img.shape = <<2, 1, Depth>>
    /\ \A rc \in DOMAIN args.img.px : args.img.px[rc] # 0
    /\ args.max_height = 3 /\ args.max_width = 2
    /\ result.value.padding = [top |-> 0, bottom |-> 1, left |-> 0, right |-> 1]
    /\ result.value.img.px[<<3, 2>>] = 0

BatchDone == op \in {"calculate_max_height_width", "pad_batch"}
BatchMax == IF op = "pad_batch" THEN <<args.max_height, args.max_width>> ELSE result

\* C6: the pair returned for a batch is the largest height and the largest
\* width of the batch, each over all of its images.
C6_IndependentMaxima ==
    BatchDone =>
        /\ \A i \in 1..Len(args.imgs) :
              /\ args.imgs[i].shape[1] <= BatchMax[1]
              /\ args.imgs[i].shape[2] <= BatchMax[2]
        /\ \E i \in 1..Len(args.imgs) : args.imgs[i].shape[1] = BatchMax[1]
        /\ \E i \in 1..Len(args.imgs) : args.imgs[i].shape[2] = BatchMax[2]

\* The tallest image is not the widest, and two images tie for the height.
C6_Witness ==
    /\ op = "calculate_max_height_width"
    /\ Len(args.imgs) = 3
    /\ args.imgs[1].shape = <<3, 1, Depth>>
    /\ args.imgs[2].shape = <<1, 2, Depth>>
    /\ args.imgs[3].shape = <<3, 1, Depth>>
    /\ result = <<3, 2>>

\* C9: padding every image of a batch to the batch maxima trips no
\* assertion, gives every padded image the size of the maxima and a padding
\* record that splits the missing rows and columns into non-negative halves
\* with the extra one after; an image larger than the canvas is rejected by
\* assertion.
C9_BatchUniformity ==
    /\ op = "pad_batch" =>
          \A i \in 1..Len(args.imgs) :
              /\ result[i].status = "ok"
              /\ result[i].value.img.shape[1] = args.max_height
              /\ result[i].value.img.shape[2] = args.max_width
              /\ LET p == result[i].value.padding
                 IN /\ p.top + p.bottom = args.max_height - args.imgs[i].shape[1]
                    /\ p.left + p.right = args.max_width - args.imgs[i].shape[2]
                    /\ p.top >= 0 /\ p.bottom >= 0 /\ p.left >= 0 /\ p.right >= 0
                    /\ p.bottom - p.top \in {0, 1}
                    /\ p.right - p.left \in {0, 1}
    /\ (/\ op = "get_padded_img"
        /\ \/ args.img.shape[1] > args.max_height
           \/ args.img.shape[2] > args.max_width) => result.status = "AssertionError"

\* A batch whose maxima come from different images, one padded by an odd
\* number of rows and the other by an even number of columns.
C9_Witness ==
    /\ op = "pad_batch"
    /\ Len(args.imgs) = 2
    /\ args.imgs[1].shape = <<3, 1, Depth>>
    /\ args.imgs[2].shape = <<2, 3, Depth>>
    /\ result[1].value.padding = [top |-> 0, bottom |-> 0, left |-> 1, right |-> 1]
    /\ result[2].value.padding = [top |-> 0, bottom |-> 1, left |-> 0, right |-> 0]


(***************************************************************************)
(* resize_image.  A pillow image is its size (width, height); resize       *)
(* returns an image of the requested size.                                 *)
(***************************************************************************)
max(a, b) == IF a >= b THEN a ELSE b

\* int(round(m * (a / b))) for positive integers: the nearest integer of
\* m*a/b.  The quotient a / b is rounded to a double before the product, so
\* a product that is exactly halfway may land on either side of the half;
\* both neighbours are possible results.
int_round_product(m, a, b) ==
    LET q == (m * a) \div b
        r == (m * a) % b
    IN IF 2 * r < b THEN {q}
       ELSE IF 2 * r > b THEN {q + 1}
       ELSE {q, q + 1}

Image_resize(image, new_size) == [size |-> new_size]

\* resize_image without the test of line 162: every image is resized.
resize_image_always(image, max_allowed_size) ==
    LET width == image.size[1]
        height == image.size[2]
    IN IF height > width
       THEN {Image_resize(image, <<new_width, max_allowed_size>>) :
                new_width \in int_round_product(max_allowed_size, width, height)}
       ELSE {Image_resize(image, <<max_allowed_size, new_height>>) :
                new_height \in int_round_product(max_allowed_size, height, width)}

\* The images resize_image may return.
resize_image(image, max_allowed_size) ==
    LET width == image.size[1]
        height == image.size[2]
        max_image_size == max(height, width)
    IN IF max_allowed_size < max_image_size
       THEN IF height > width
            THEN {Image_resize(image, <<new_width, max_allowed_size>>) :
                     new_width \in int_round_product(max_allowed_size, width, height)}
            ELSE {Image_resize(image, <<max_allowed_size, new_height>>) :
                     new_height \in int_round_product(max_allowed_size, height, width)}
       ELSE {image}

ResizeInputs ==
    [image : [size : (1..MaxImageSide) \X (1..MaxImageSide)],
     max_allowed_size : 1..MaxAllowed]

InitResize ==
    /\ op = "idle"
    /\ args \in ResizeInputs
    /\ result = <<>>
    /\ fs = NoFs
    /\ img_boundaries = NoBoundaries
    /\ applied = <<>>

ResizeImage ==
    /\ op = "idle"
    /\ op' = "resize_image"
    /\ result' \in resize_image(args.image, args.max_allowed_size)
    /\ UNCHANGED <<args, fs, img_boundaries, applied>>

NextResize == ResizeImage

SpecResize == InitResize /\ [][NextResize]_vars

\* C4: an image whose larger side is at most max_allowed_size comes back
\* with its size unchanged; otherwise neither side grows and the larger
\* returned side is max_allowed_size.
C4_NeverUpscales ==
    op = "resize_image" =>
        LET width == args.image.size[1]
            height == args.image.size[2]
        IN IF max(height, width) <= args.max_allowed_size
           THEN result.size = args.image.size
           ELSE /\ result.size[1] <= width
                /\ result.size[2] <= height
                /\ max(result.size[1], result.size[2]) = args.max_allowed_size

\* An image smaller than the limit on both sides, returned as it is.
C4_Witness ==
    /\ op = "resize_image"
    /\ args.image.size = <<2, 3>>
    /\ args.max_allowed_size = 5
    /\ result.size = <<2, 3>>

\* C5: when the larger side exceeds max_allowed_size, the returned shorter
\* side is a positive integer within one half of
\* max_allowed_size * (shorter side / longer side).
C5_ShorterSidePositiveWithinHalf ==
    (/\ op = "resize_image"
     /\ max(args.image.size[1], args.image.size[2]) > args.max_allowed_size) =>
        LET width == args.image.size[1]
            height == args.image.size[2]
            long == max(height, width)
            short == IF height > width THEN width ELSE height
            new_short == IF height > width THEN result.size[1] ELSE result.size[2]
            twice == 2 * new_short * long - 2 * args.max_allowed_size * short
        IN /\ new_short > 0
           /\ twice <= long /\ 0 - twice <= long


(***************************************************************************)
(* bbox_handler.  A fractional coordinate is a float counted in halves     *)
(* (num stands for num / 2), which a float holds exactly; its product with *)
(* a side is exact and np.round rounds it to the nearest integer, halves   *)
(* to even.                                                                *)
(***************************************************************************)
\* np.round(num / 2 * side)
np_round(num, side) ==
    LET q == (num * side) \div 2
        r == (num * side) % 2
    IN IF r = 0 THEN q
       ELSE IF q % 2 = 0 THEN q ELSE q + 1

\* bbox_handler with the columns copied in their input order.
bbox_handler_unswapped(img, bboxes) ==
    LET height == img.shape[1]
        width == img.shape[2]
    IN [i \in 1..Len(bboxes) |->
           <<np_round(bboxes[i][1], width), np_round(bboxes[i][2], height),
             np_round(bboxes[i][3], width), np_round(bboxes[i][4], height)>>]

bbox_handler(img, bboxes) ==
    LET height == img.shape[1]
        width == img.shape[2]
    IN [i \in 1..Len(bboxes) |->
           <<np_round(bboxes[i][2], width), np_round(bboxes[i][1], height),
             np_round(bboxes[i][4], width), np_round(bboxes[i][3], height)>>]

\* Numerators of the corner fractions: -1/2 and 1/2 for the minima, 1/2 and
\* 3/2 for the maxima.
MinNums == {-1, 1}
MaxNums == {1, 3}
FracBoxes == MinNums \X MinNums \X MaxNums \X MaxNums
BBoxInputs ==
    [img : {BlankImage(h, w) : h \in 1..MaxBoxSide, w \in 1..MaxBoxSide},
     bboxes : UNION {[1..k -> FracBoxes] : k \in 1..MaxBoxes}]

InitBBox ==
    /\ op = "idle"
    /\ args \in BBoxInputs
    /\ result = <<>>
    /\ fs = NoFs
    /\ img_boundaries = NoBoundaries
    /\ applied = <<>>

BBoxHandler ==
    /\ op = "idle"
    /\ op' = "bbox_handler"
    /\ result' = bbox_handler(args.img, args.bboxes)
    /\ UNCHANGED <<args, fs, img_boundaries, applied>>

NextBBox == BBoxHandler

SpecBBox == InitBBox /\ [][NextBBox]_vars

\* v is an integer nearest to num / 2 * side.
Nearest(v, num, side) ==
    /\ 2 * v - num * side <= 1
    /\ num * side - 2 * v <= 1

\* C8: each box [y_min, x_min, y_max, x_max] comes back, at its place, as
\* [x_min*w, y_min*h, x_max*w, y_max*h], each the nearest integer and none
\* clamped to the image.
C8_SwappedScaledRounded ==
    op = "bbox_handler" =>
        /\ Len(result) = Len(args.bboxes)
        /\ \A i \in 1..Len(result) :
              LET h == args.img.shape[1]
                  w == args.img.shape[2]
                  y_min == args.bboxes[i][1]
                  x_min == args.bboxes[i][2]
                  y_max == args.bboxes[i][3]
                  x_max == args.bboxes[i][4]
              IN /\ Len(result[i]) = 4
                 /\ Nearest(result[i][1], x_min, w)
                 /\ Nearest(result[i][2], y_min, h)
                 /\ Nearest(result[i][3], x_max, w)
                 /\ Nearest(result[i][4], y_max, h)

\* Two boxes on a 1 x 3 image; the second reaches left of the image and
\* past its right edge.
C8_Witness ==
    /\ op = "bbox_handler"
    /\ args.img.shape = <<1, 3, Depth>>
    /\ args.bboxes = <<<<1, 1, 1, 1>>, <<1, -1, 3, 3>>>>
    /\ result[2] = <<-2, 0, 4, 2>>

(***************************************************************************)
(* get_image_boundaries and update_image_boundaries_with_padding.  The     *)
(* boundary record is a dictionary updated in place.                       *)
(***************************************************************************)
get_image_boundaries(img) ==
    LET img_height == img.shape[1]
        img_width == img.shape[2]
    IN [top |-> 0, left |-> 0, right |-> img_width, bottom |-> img_height]

update_image_boundaries_with_padding(boundaries, padding) ==
    [top |-> padding.top,
     left |-> padding.left,
     bottom |-> boundaries.bottom + padding.top,
     right |-> boundaries.right + padding.left]

Paddings == [top : 0..MaxPad, bottom : 0..MaxPad, left : 0..MaxPad, right : 0..MaxPad]

InitBound ==
    /\ op = "idle"
    /\ args \in [img : {BlankImage(h, w) : h \in 1..MaxBoundarySide,
                                           w \in 1..MaxBoundarySide}]
    /\ result = <<>>
    /\ fs = NoFs
    /\ img_boundaries = NoBoundaries
    /\ applied = <<>>

GetImageBoundaries ==
    /\ op = "idle"
    /\ op' = "get_image_boundaries"
    /\ img_boundaries' = get_image_boundaries(args.img)
    /\ applied' = <<>>
    /\ UNCHANGED <<args, result, fs>>

UpdateImageBoundariesWithPadding ==
    /\ op \in {"get_image_boundaries", "update_image_boundaries_with_padding"}
    /\ Len(applied) < MaxCalls
    /\ \E padding \in Paddings :
          /\ img_boundaries' = update_image_boundaries_with_padding(img_boundaries, padding)
          /\ applied' = Append(applied, padding)
    /\ op' = "update_image_boundaries_with_padding"
    /\ UNCHANGED <<args, result, fs>>

NextBound == GetImageBoundaries \/ UpdateImageBoundariesWithPadding

SpecBound == InitBound /\ [][NextBound]_vars

RECURSIVE SumTop(_)
SumTop(ps) == IF ps = <<>> THEN 0 ELSE Head(ps).top + SumTop(Tail(ps))

RECURSIVE SumLeft(_)
SumLeft(ps) == IF ps = <<>> THEN 0 ELSE Head(ps).left + SumLeft(Tail(ps))

\* C10: after one or more updates with padding, the record still spans the
\* image: bottom - top is the image's height, right - left its width, and
\* top and left are the total top and left padding applied.
C10_ExtentPreserved ==
    op = "update_image_boundaries_with_padding" =>
        /\ img_boundaries.bottom - img_boundaries.top = args.img.shape[1]
        /\ img_boundaries.right - img_boundaries.left = args.img.shape[2]
        /\ img_boundaries.top = SumTop(applied)
        /\ img_boundaries.left = SumLeft(applied)

====
